---- MODULE Spec2Model ----
(***************************************************************************)
(* Model of GenePanelDesigner: the exon-range parser parseIntSet and the   *)
(* genepanel pipeline (query -> reference filtering -> exon expansion and  *)
(* numbering -> sort/merge -> BED output).                                 *)
(*                                                                         *)
(* Python strings are modelled as sequences of one-character strings, so   *)
(* that split, strip, int() and str() are computed, not assumed.           *)
(***************************************************************************)
EXTENDS Integers, Sequences, FiniteSets, TLC

VARIABLES
    \* ---- parseIntSet, run on its own (SpecParse) ----
    nputstr,        \* the argument of parseIntSet
    tokens,         \* the tokens the for-loop has not visited yet
    selection,      \* local set `selection`
    invalid,        \* local set `invalid`
    ret,            \* the returned value: [isNone |-> BOOLEAN, sel |-> set]
    ppc,            \* position inside parseIntSet
    \* ---- the genepanel command (Spec) ----
    pc,             \* position inside genepanel()
    json_ok,        \* whether the --input-json string is valid JSON
    input_json,     \* the query dictionary (key -> string)
    output_bed,     \* the --output-bed option / the derived file name
    reference,      \* the reference file: sequence of refFlat rows
    reference_df,   \* the loaded reference data frame
    df,             \* the candidate rows
    exon_range,     \* list of requested exon numbers; <<>> stands for False
    df_out,         \* numbered / filtered / tagged exon intervals
    df_bed,         \* the sorted BedTool built from df_out
    output_file,    \* the output path: [written |-> BOOLEAN, rows |-> seq]
    error           \* how the run ended: [exc |-> ..., log |-> ...]

parseVars == <<nputstr, tokens, selection, invalid, ret, ppc>>
pipeVars == <<pc, json_ok, input_json, output_bed, reference, reference_df,
              df, exon_range, df_out, df_bed, output_file, error>>
vars == <<nputstr, tokens, selection, invalid, ret, ppc,
          pc, json_ok, input_json, output_bed, reference, reference_df,
          df, exon_range, df_out, df_bed, output_file, error>>

-----------------------------------------------------------------------------
(* Bounds *)

\* longest exon-range string given to parseIntSet in SpecParse
MaxLen == 5
\* largest number of rows in the reference file
MaxRows == 2

\* characters the exon-range strings are built from
Chars == {"0", "1", "2", ",", "-", "<", "x", " "}

-----------------------------------------------------------------------------
(* Python string primitives *)

Digits == {"0", "1", "2", "3", "4", "5", "6", "7", "8", "9"}

DigitVal(c) ==
    CASE c = "0" -> 0 [] c = "1" -> 1 [] c = "2" -> 2 [] c = "3" -> 3
      [] c = "4" -> 4 [] c = "5" -> 5 [] c = "6" -> 6 [] c = "7" -> 7
      [] c = "8" -> 8 [] c = "9" -> 9

DigitChar(d) ==
    CASE d = 0 -> "0" [] d = 1 -> "1" [] d = 2 -> "2" [] d = 3 -> "3"
      [] d = 4 -> "4" [] d = 5 -> "5" [] d = 6 -> "6" [] d = 7 -> "7"
      [] d = 8 -> "8" [] d = 9 -> "9"

\* str.strip(): drop leading and trailing whitespace
strip(s) ==
    IF \A k \in 1..Len(s) : s[k] = " " THEN <<>>
    ELSE LET lo == CHOOSE k \in 1..Len(s) :
                       s[k] # " " /\ \A j \in 1..(k-1) : s[j] = " "
             hi == CHOOSE k \in 1..Len(s) :
                       s[k] # " " /\ \A j \in (k+1)..Len(s) : s[j] = " "
         IN  SubSeq(s, lo, hi)

\* str.split(sep): always at least one part, empty parts are kept
RECURSIVE split(_, _)
split(s, sep) ==
    IF \A k \in 1..Len(s) : s[k] # sep THEN <<s>>
    ELSE LET k == CHOOSE k \in 1..Len(s) :
                      s[k] = sep /\ \A j \in 1..(k-1) : s[j] # sep
         IN  <<SubSeq(s, 1, k-1)>> \o split(SubSeq(s, k+1, Len(s)), sep)

\* the value of a non-empty string of decimal digits
RECURSIVE NatVal(_)
NatVal(d) ==
    IF Len(d) = 0 THEN 0
    ELSE NatVal(SubSeq(d, 1, Len(d)-1)) * 10 + DigitVal(d[Len(d)])

\* int(s) succeeds: surrounding whitespace, an optional sign, then digits
int_ok(s) ==
    LET t == strip(s)
        body == IF Len(t) > 0 /\ t[1] = "-" THEN Tail(t) ELSE t
    IN  Len(body) > 0 /\ \A k \in 1..Len(body) : body[k] \in Digits

\* int(s), where it succeeds
int_val(s) ==
    LET t == strip(s)
    IN  IF t[1] = "-" THEN 0 - NatVal(Tail(t)) ELSE NatVal(t)

\* str(n) of an integer
RECURSIVE NatStr(_)
NatStr(n) ==
    IF n < 10 THEN <<DigitChar(n)>>
    ELSE NatStr(n \div 10) \o <<DigitChar(n % 10)>>

str(n) == IF n < 0 THEN <<"-">> \o NatStr(0 - n) ELSE NatStr(n)

\* sep.join(parts)
RECURSIVE join(_, _)
join(sep, parts) ==
    IF Len(parts) = 0 THEN <<>>
    ELSE IF Len(parts) = 1 THEN parts[1]
    ELSE parts[1] \o sep \o join(sep, Tail(parts))

Min(S) == CHOOSE x \in S : \A y \in S : x <= y
Max(S) == CHOOSE x \in S : \A y \in S : x >= y

-----------------------------------------------------------------------------
(* parseIntSet *)

\* tokens = [x.strip() for x in nputstr.split(',')]
Tokenise(s) ==
    LET parts == split(s, ",")
    IN  [k \in 1..Len(parts) |-> strip(parts[k])]

\* the "<n" rewrite at the head of the loop body
Rewrite(i) ==
    IF Len(i) > 0 /\ i[1] = "<" THEN <<"1", "-">> \o Tail(i) ELSE i

\* a variant that builds range(token[0], token[-1] + 1) without token.sort()
TokenStepNoSort(i0, st) ==
    LET i == Rewrite(i0)
    IN  IF int_ok(i)
        THEN [st EXCEPT !.selection = @ \cup {int_val(i)}]
        ELSE LET parts == split(i, "-")
             IN  IF \A k \in 1..Len(parts) : int_ok(parts[k])
                 THEN IF Len(parts) > 1
                      THEN [st EXCEPT !.selection =
                               @ \cup (int_val(parts[1])..int_val(parts[Len(parts)]))]
                      ELSE st
                 ELSE [st EXCEPT !.invalid = @ \cup {i}]

\* one iteration of `for i in tokens`, on st = [selection, invalid]
TokenStep(i0, st) ==
    LET i == Rewrite(i0)
    IN  IF int_ok(i)
        THEN [st EXCEPT !.selection = @ \cup {int_val(i)}]
        ELSE LET parts == split(i, "-")
             IN  IF \A k \in 1..Len(parts) : int_ok(parts[k])
                 THEN IF Len(parts) > 1
                      THEN LET token == {int_val(parts[k]) : k \in 1..Len(parts)}
                               first == Min(token)
                               last == Max(token)
                           IN  [st EXCEPT !.selection = @ \cup (first..last)]
                      ELSE st
                 ELSE [st EXCEPT !.invalid = @ \cup {i}]

\* the value returned after the loop
Report(st) ==
    IF Cardinality(st.invalid) > 0
    THEN [isNone |-> TRUE, sel |-> {}]
    ELSE [isNone |-> FALSE, sel |-> st.selection]

RECURSIVE Loop(_, _)
Loop(toks, st) ==
    IF Len(toks) = 0 THEN st ELSE Loop(Tail(toks), TokenStep(toks[1], st))

\* parseIntSet(nputstr) as one call
parseIntSet(s) ==
    Report(Loop(Tokenise(s), [selection |-> {}, invalid |-> {}]))

-----------------------------------------------------------------------------
(* parseIntSet run step by step on every string over Chars up to MaxLen *)

Strings == UNION {[1..n -> Chars] : n \in 0..MaxLen}

NoRet == [isNone |-> FALSE, sel |-> {}]

PipeIdle ==
    /\ pc = "idle"
    /\ json_ok = TRUE
    /\ input_json = <<>>
    /\ output_bed = <<>>
    /\ reference = <<>>
    /\ reference_df = <<>>
    /\ df = <<>>
    /\ exon_range = <<>>
    /\ df_out = <<>>
    /\ df_bed = <<>>
    /\ output_file = [written |-> FALSE, rows |-> <<>>]
    /\ error = [exc |-> "none", log |-> "none"]

InitParse ==
    /\ nputstr \in Strings
    /\ tokens = <<>>
    /\ selection = {}
    /\ invalid = {}
    /\ ret = NoRet
    /\ ppc = "split"
    /\ PipeIdle

\* selection = set(); invalid = set(); tokens = [...]
ParseSplit ==
    /\ ppc = "split"
    /\ tokens' = Tokenise(nputstr)
    /\ selection' = {}
    /\ invalid' = {}
    /\ ppc' = "loop"
    /\ UNCHANGED <<nputstr, ret>>
    /\ UNCHANGED pipeVars

\* one iteration of the for-loop
ParseToken ==
    /\ ppc = "loop"
    /\ Len(tokens) > 0
    /\ LET st == TokenStep(tokens[1], [selection |-> selection, invalid |-> invalid])
       IN  /\ selection' = st.selection
           /\ invalid' = st.invalid
    /\ tokens' = Tail(tokens)
    /\ UNCHANGED <<nputstr, ret, ppc>>
    /\ UNCHANGED pipeVars

\* the loop is over: log the invalid set and return None, or return selection
ParseReturn ==
    /\ ppc = "loop"
    /\ Len(tokens) = 0
    /\ ret' = Report([selection |-> selection, invalid |-> invalid])
    /\ ppc' = "done"
    /\ UNCHANGED <<nputstr, tokens, selection, invalid>>
    /\ UNCHANGED pipeVars

NextParse == ParseSplit \/ ParseToken \/ ParseReturn

SpecParse == InitParse /\ [][NextParse]_vars

TypeParse ==
    /\ ppc \in {"split", "loop", "done"}
    /\ ret.isNone \in BOOLEAN
    /\ ppc = "done" => ret = parseIntSet(nputstr)

-----------------------------------------------------------------------------
(* The reference file and the query *)

Keys == <<"genename", "transcript", "exons", "coordinate">>

Row(chrom, starts, ends, strand, name2, name) ==
    [chrom |-> chrom, exonStarts |-> starts, exonEnds |-> ends,
     strand |-> strand, name2 |-> name2, name |-> name,
     exonCount |-> Len(starts)]

\* refFlat rows the reference file is made of; exon starts are distinct
\* within a chromosome, row 2 lists its exons out of genomic order, rows 1
\* and 3 are two records of transcript N of gene G
RowPool ==
    << Row("chr1", <<10, 30, 50>>, <<20, 40, 60>>, "+", <<"G">>, <<"N", ".", "2">>),
       Row("chr1", <<55, 15, 35>>, <<58, 25, 45>>, "-", <<"G">>, <<"M">>),
       Row("chr1", <<70, 80>>, <<75, 90>>, "-", <<"G">>, <<"N">>),
       Row("chr2", <<5>>, <<9>>, "+", <<"g">>, <<"N">>),
       Row("chr1", <<18, 62>>, <<22, 66>>, "-", <<"g">>, <<"M", ".", "1">>) >>

\* the order bedtools sort puts chromosome names in
ChromRank(c) == IF c = "chr1" THEN 1 ELSE 2

RECURSIVE SetToSeq(_)
SetToSeq(S) ==
    IF S = {} THEN <<>>
    ELSE LET x == Min(S) IN <<x>> \o SetToSeq(S \ {x})

\* reference files: up to MaxRows rows of the pool, in pool order
ReferenceFiles ==
    {[k \in 1..Len(SetToSeq(I)) |-> RowPool[SetToSeq(I)[k]]] :
        I \in {J \in SUBSET (1..Len(RowPool)) :
                 Cardinality(J) >= 1 /\ Cardinality(J) <= MaxRows}}

Absent == <<"(absent)">>

GenenameValues == {Absent, <<>>, <<"G">>, <<"g">>}
TranscriptValues == {Absent, <<"N">>, <<"N", ".", "2">>, <<"M">>}
ExonsValues ==
    {Absent, <<"1">>, <<"<", "2">>, <<"3", "-", "1">>, <<"1", ",", "x">>, <<"9">>}
CoordinateValues == {Absent, <<"1", ":", "5", "-", "9">>}
OutputBedValues == {<<>>, <<"o", ".", "b", "e", "d">>}

\* the dictionary json.loads gives: the keys that are there, with their values
MkJson(g, t, e, c) ==
    LET all == [k \in {"genename", "transcript", "exons", "coordinate"} |->
                   CASE k = "genename" -> g [] k = "transcript" -> t
                     [] k = "exons" -> e [] k = "coordinate" -> c]
    IN  [k \in {x \in DOMAIN all : all[x] # Absent} |-> all[k]]

Has(d, k) == k \in DOMAIN d

NoError == [exc |-> "none", log |-> "none"]
Abort(msg) == [exc |-> "click.Abort", log |-> msg]
NoFile == [written |-> FALSE, rows |-> <<>>]

ParseIdle ==
    /\ nputstr = <<>>
    /\ tokens = <<>>
    /\ selection = {}
    /\ invalid = {}
    /\ ret = NoRet
    /\ ppc = "idle"

Init ==
    /\ pc = "read_json"
    /\ json_ok \in BOOLEAN
    /\ \E g \in GenenameValues, t \in TranscriptValues,
          e \in ExonsValues, c \in CoordinateValues :
          /\ input_json = MkJson(g, t, e, c)
          \* one unparsable JSON text is enough
          /\ json_ok = FALSE => (g = Absent /\ t = Absent /\ e = Absent /\ c = Absent)
    /\ output_bed \in OutputBedValues
    /\ reference \in ReferenceFiles
    /\ reference_df = <<>>
    /\ df = <<>>
    /\ exon_range = <<>>
    /\ df_out = <<>>
    /\ df_bed = <<>>
    /\ output_file = NoFile
    /\ error = NoError
    /\ ParseIdle

Fail(e) ==
    /\ error' = e
    /\ pc' = "done"

-----------------------------------------------------------------------------
(* genepanel(): one action per block of the command *)

\* read_json: json.loads, then drop the keys with an empty value
read_json(d) == [k \in {x \in DOMAIN d : d[x] # <<>>} |-> d[k]]

ReadJson ==
    /\ pc = "read_json"
    /\ IF json_ok
       THEN /\ input_json' = read_json(input_json)
            /\ pc' = "genename"
            /\ UNCHANGED error
       ELSE /\ Fail(Abort("Invalid input json string"))
            /\ UNCHANGED input_json
    /\ UNCHANGED <<json_ok, output_bed, reference, reference_df, df,
                   exon_range, df_out, df_bed, output_file>>
    /\ UNCHANGED parseVars

\* if not input_json['genename']: a missing key raises KeyError
CheckGenename ==
    /\ pc = "genename"
    /\ IF ~Has(input_json, "genename")
       THEN Fail([exc |-> "KeyError", log |-> "none"])
       ELSE IF input_json["genename"] = <<>>
       THEN Fail(Abort("Input string must have genename entry"))
       ELSE pc' = "exons" /\ UNCHANGED error
    /\ UNCHANGED <<json_ok, input_json, output_bed, reference, reference_df,
                   df, exon_range, df_out, df_bed, output_file>>
    /\ UNCHANGED parseVars

\* the orders list(set) may put the members of S in
Orders(S) ==
    {p \in [1..Cardinality(S) -> S] : \A a, b \in DOMAIN p : a # b => p[a] # p[b]}

\* exon_range = list(parseIntSet(...)); list(None) raises TypeError, so the
\* `exon_range is None` test below it is never reached with None
ExonRange ==
    /\ pc = "exons"
    /\ IF Has(input_json, "exons") /\ input_json["exons"] # <<>>
       THEN LET r == parseIntSet(input_json["exons"])
            IN  IF r.isNone
                THEN /\ Fail([exc |-> "TypeError", log |-> "none"])
                     /\ UNCHANGED <<exon_range, input_json>>
                ELSE \E order \in Orders(r.sel) :
                       /\ exon_range' = order
                       /\ input_json' =
                            [input_json EXCEPT !["exons"] =
                               join(<<",">>, [k \in 1..Len(order) |-> str(order[k])])]
                       /\ pc' = "outname"
                       /\ UNCHANGED error
       ELSE /\ pc' = "outname"
            /\ UNCHANGED <<exon_range, input_json, error>>
    /\ UNCHANGED <<json_ok, output_bed, reference, reference_df, df,
                   df_out, df_bed, output_file>>
    /\ UNCHANGED parseVars

\* '_'.join(values), each of ",:-" replaced by "_", then ".bed"; the JSON
\* text is taken to list its keys in the order of Keys
DefaultName(d) ==
    LET present == SelectSeq(Keys, LAMBDA k : Has(d, k))
        joined == join(<<"_">>, [k \in 1..Len(present) |-> d[present[k]]])
    IN  [k \in 1..Len(joined) |->
            IF joined[k] \in {",", ":", "-"} THEN "_" ELSE joined[k]]
        \o <<".", "b", "e", "d">>

OutputName ==
    /\ pc = "outname"
    /\ output_bed' = IF output_bed = <<>> THEN DefaultName(input_json) ELSE output_bed
    /\ pc' = "load"
    /\ UNCHANGED <<json_ok, input_json, reference, reference_df, df,
                   exon_range, df_out, df_bed, output_file, error>>
    /\ UNCHANGED parseVars

\* reference_df["name"].str.split(".", n=1)[0]
StripVersion(name) == split(name, ".")[1]

\* pandas.read_csv and the transcript-version strip; reading may fail
LoadReference ==
    /\ pc = "load"
    /\ \E readable \in BOOLEAN :
         IF readable
         THEN /\ reference_df' =
                   [k \in 1..Len(reference) |->
                      [reference[k] EXCEPT !.name = StripVersion(@)]]
              /\ pc' = "filter"
              /\ UNCHANGED error
         ELSE /\ Fail(Abort("Couldn't load reference file into dataframe"))
              /\ UNCHANGED reference_df
    /\ UNCHANGED <<json_ok, input_json, output_bed, reference, df,
                   exon_range, df_out, df_bed, output_file>>
    /\ UNCHANGED parseVars

Lower(c) ==
    CASE c = "G" -> "g" [] c = "N" -> "n" [] c = "M" -> "m" [] OTHER -> c

\* a variant that compares gene symbols without regard to case
CandidatesNoCase(ref_df, q) ==
    LET low(w) == [k \in 1..Len(w) |-> Lower(w[k])]
        byGene == SelectSeq(ref_df, LAMBDA r : low(r.name2) = low(q["genename"]))
    IN  IF Has(q, "transcript") /\ q["transcript"] # <<>>
        THEN SelectSeq(byGene, LAMBDA r : r.name = q["transcript"])
        ELSE byGene

\* reference_df.loc[name2 == genename], then df.loc[name == transcript]
Candidates(ref_df, q) ==
    LET byGene == SelectSeq(ref_df, LAMBDA r : r.name2 = q["genename"])
    IN  IF Has(q, "transcript") /\ q["transcript"] # <<>>
        THEN SelectSeq(byGene, LAMBDA r : r.name = q["transcript"])
        ELSE byGene

FilterReference ==
    /\ pc = "filter"
    /\ df' = Candidates(reference_df, input_json)
    /\ pc' = "empty"
    /\ UNCHANGED <<json_ok, input_json, output_bed, reference, reference_df,
                   exon_range, df_out, df_bed, output_file, error>>
    /\ UNCHANGED parseVars

\* if df.shape[0] == 0: abort
CheckEmpty ==
    /\ pc = "empty"
    /\ IF Len(df) = 0
       THEN Fail(Abort("No enteries for input string was found in reference file."))
       ELSE pc' = "ambiguous" /\ UNCHANGED error
    /\ UNCHANGED <<json_ok, input_json, output_bed, reference, reference_df,
                   df, exon_range, df_out, df_bed, output_file>>
    /\ UNCHANGED parseVars

\* a variant that counts distinct strands, not rows
AmbiguousByStrand(d) ==
    Cardinality({d[k].strand : k \in 1..Len(d)}) > 1

\* df.name.count() > 1 or df.name2.count() > 1 or df.strand.count() > 1
Ambiguous(d) ==
    Len(d) > 1

CheckAmbiguous ==
    /\ pc = "ambiguous"
    /\ IF Has(input_json, "exons") /\ Ambiguous(df)
       THEN Fail(Abort("More than one entry name (transcript) or name2 (gene) or strand column"))
       ELSE pc' = "bed" /\ UNCHANGED error
    /\ UNCHANGED <<json_ok, input_json, output_bed, reference, reference_df,
                   df, exon_range, df_out, df_bed, output_file>>
    /\ UNCHANGED parseVars

-----------------------------------------------------------------------------
(* pybedtools: expand, sort, merge *)

\* BedTool.from_dataframe(df).expand(c="2,3").to_dataframe(): one interval
\* per exon; to_dataframe names the seven columns by position, so column
\* `name` holds the strand, `score` the gene, `strand` the transcript and
\* `thickStart` the row's exonCount
ExpandRow(r) ==
    [k \in 1..Len(r.exonStarts) |->
        [chrom |-> r.chrom, start |-> r.exonStarts[k], end |-> r.exonEnds[k],
         name |-> r.strand, score |-> r.name2, strand |-> r.name,
         thickStart |-> r.exonCount]]

RECURSIVE Expand(_)
Expand(d) ==
    IF Len(d) = 0 THEN <<>> ELSE ExpandRow(d[1]) \o Expand(Tail(d))

BedLess(a, b) ==
    \/ ChromRank(a.chrom) < ChromRank(b.chrom)
    \/ a.chrom = b.chrom /\ a.start < b.start

RECURSIVE Insert(_, _)
Insert(x, sorted) ==
    IF Len(sorted) = 0 THEN <<x>>
    ELSE IF BedLess(x, sorted[1]) THEN <<x>> \o sorted
    ELSE <<sorted[1]>> \o Insert(x, Tail(sorted))

\* BedTool.sort(): by chromosome, then by start
RECURSIVE SortBed(_)
SortBed(ivs) ==
    IF Len(ivs) = 0 THEN <<>>
    ELSE Insert(ivs[Len(ivs)], SortBed(SubSeq(ivs, 1, Len(ivs) - 1)))

\* a variant that numbers every transcript in genomic order
ExonNumNoReverse(d, n) ==
    [k \in 1..n |-> k]

\* exonNum = list(range(1, n+1)), reversed when the first strand is "-"
ExonNum(d, n) ==
    IF d[1].strand = "-" THEN [k \in 1..n |-> n + 1 - k] ELSE [k \in 1..n |-> k]

InList(x, l) == \E k \in 1..Len(l) : l[k] = x

\* a variant that tags every interval "exon_num_"
filter_exonOnePrefix(d, range) ==
    LET bed == SortBed(Expand(d))
    IN  IF Len(range) > 0
        THEN LET exonNum == ExonNum(d, Len(bed))
                 numbered == [k \in 1..Len(bed) |-> [bed[k] EXCEPT !.thickStart = exonNum[k]]]
                 kept == SelectSeq(numbered, LAMBDA iv : InList(iv.thickStart, range))
             IN  [k \in 1..Len(kept) |->
                    [kept[k] EXCEPT !.thickStart = <<"exon_num_">> \o str(@)]]
        ELSE [k \in 1..Len(bed) |->
                [bed[k] EXCEPT !.thickStart = <<"exon_num_">> \o str(@)]]

\* filter_exon: expand and sort, then number, filter and tag
filter_exon(d, range) ==
    LET bed == SortBed(Expand(d))
    IN  IF Len(range) > 0
        THEN LET exonNum == ExonNum(d, Len(bed))
                 numbered == [k \in 1..Len(bed) |-> [bed[k] EXCEPT !.thickStart = exonNum[k]]]
                 kept == SelectSeq(numbered, LAMBDA iv : InList(iv.thickStart, range))
             IN  [k \in 1..Len(kept) |->
                    [kept[k] EXCEPT !.thickStart = <<"exon_num_">> \o str(@)]]
        ELSE [k \in 1..Len(bed) |->
                [bed[k] EXCEPT !.thickStart = <<"total_exon_">> \o str(@)]]

\* bedtools merge -c 4,5,6,7 -o distinct on a sorted file: an interval that
\* starts at or before the end of the current region, on its chromosome, is
\* folded into it
RECURSIVE Merge(_, _)
Merge(ivs, acc) ==
    IF Len(ivs) = 0 THEN acc
    ELSE LET x == ivs[1]
             n == Len(acc)
         IN  IF n > 0 /\ acc[n].chrom = x.chrom /\ x.start <= acc[n].end
             THEN Merge(Tail(ivs),
                        [acc EXCEPT ![n] =
                           [chrom |-> @.chrom, start |-> @.start,
                            end |-> IF x.end > @.end THEN x.end ELSE @.end,
                            name |-> @.name \cup {x.name},
                            score |-> @.score \cup {x.score},
                            strand |-> @.strand \cup {x.strand},
                            thickStart |-> @.thickStart \cup {x.thickStart}]])
             ELSE Merge(Tail(ivs),
                        Append(acc,
                           [chrom |-> x.chrom, start |-> x.start, end |-> x.end,
                            name |-> {x.name}, score |-> {x.score},
                            strand |-> {x.strand},
                            thickStart |-> {x.thickStart}]))

\* the try block that builds df_out and the sorted BedTool; pybedtools may raise
BuildBed ==
    /\ pc = "bed"
    /\ \E raised \in BOOLEAN :
         IF raised
         THEN /\ Fail(Abort("Bed object creation failed"))
              /\ UNCHANGED <<df_out, df_bed>>
         ELSE /\ df_out' = filter_exon(df, exon_range)
              /\ df_bed' = SortBed(filter_exon(df, exon_range))
              /\ pc' = "merge"
              /\ UNCHANGED error
    /\ UNCHANGED <<json_ok, input_json, output_bed, reference, reference_df,
                   df, exon_range, output_file>>
    /\ UNCHANGED parseVars

\* a variant that opens and writes the output before the merge can fail
MergeSavePartial ==
    /\ pc = "merge"
    /\ \E raised \in BOOLEAN :
         IF raised
         THEN /\ Fail(Abort("Merge and collapse of BED object failed"))
              /\ output_file' = [written |-> TRUE, rows |-> <<>>]
         ELSE /\ output_file' = [written |-> TRUE, rows |-> Merge(df_bed, <<>>)]
              /\ pc' = "done"
              /\ UNCHANGED error
    /\ UNCHANGED <<json_ok, input_json, output_bed, reference, reference_df,
                   df, exon_range, df_out, df_bed>>
    /\ UNCHANGED parseVars

\* df_bed.merge(c='4,5,6,7', o="distinct").saveas(output_bed); the merge may raise
MergeSave ==
    /\ pc = "merge"
    /\ \E raised \in BOOLEAN :
         IF raised
         THEN /\ Fail(Abort("Merge and collapse of BED object failed"))
              /\ UNCHANGED output_file
         ELSE /\ output_file' = [written |-> TRUE, rows |-> Merge(df_bed, <<>>)]
              /\ pc' = "done"
              /\ UNCHANGED error
    /\ UNCHANGED <<json_ok, input_json, output_bed, reference, reference_df,
                   df, exon_range, df_out, df_bed>>
    /\ UNCHANGED parseVars

Next ==
    \/ ReadJson
    \/ CheckGenename
    \/ ExonRange
    \/ OutputName
    \/ LoadReference
    \/ FilterReference
    \/ CheckEmpty
    \/ CheckAmbiguous
    \/ BuildBed
    \/ MergeSave

Spec == Init /\ [][Next]_vars

TypeOK ==
    /\ pc \in {"read_json", "genename", "exons", "outname", "load", "filter",
               "empty", "ambiguous", "bed", "merge", "done"}
    /\ error.exc \in {"none", "click.Abort", "KeyError", "TypeError"}
    /\ output_file.written \in BOOLEAN

-----------------------------------------------------------------------------
(* Claims about parseIntSet, checked under SpecParse *)

IsNat(t) == Len(t) > 0 /\ \A k \in 1..Len(t) : t[k] \in Digits

IsBareToken(t) == IsNat(t)

IsLessToken(t) == Len(t) > 1 /\ t[1] = "<" /\ IsNat(Tail(t))

DashSplits(t) ==
    {k \in 1..Len(t) :
        t[k] = "-" /\ IsNat(SubSeq(t, 1, k-1)) /\ IsNat(SubSeq(t, k+1, Len(t)))}

IsDashToken(t) == DashSplits(t) # {}

DashLeft(t) == NatVal(SubSeq(t, 1, (CHOOSE k \in DashSplits(t) : TRUE) - 1))
DashRight(t) == NatVal(SubSeq(t, (CHOOSE k \in DashSplits(t) : TRUE) + 1, Len(t)))

Lo(a, b) == IF a <= b THEN a ELSE b
Hi(a, b) == IF a <= b THEN b ELSE a

TokenSet(s) == {Tokenise(s)[k] : k \in 1..Len(Tokenise(s))}

WellFormed(s) ==
    \A t \in TokenSet(s) : IsBareToken(t) \/ IsDashToken(t) \/ IsLessToken(t)

\* what a "<n" token stands for: 1..n as the claim has it, or the closed
\* interval between 1 and n
DenotesAsClaimed(t) ==
    IF IsBareToken(t) THEN {NatVal(t)}
    ELSE IF IsDashToken(t)
    THEN Lo(DashLeft(t), DashRight(t))..Hi(DashLeft(t), DashRight(t))
    ELSE 1..NatVal(Tail(t))

DenotesAmended(t) ==
    IF IsBareToken(t) THEN {NatVal(t)}
    ELSE IF IsDashToken(t)
    THEN Lo(DashLeft(t), DashRight(t))..Hi(DashLeft(t), DashRight(t))
    ELSE Lo(1, NatVal(Tail(t)))..Hi(1, NatVal(Tail(t)))

\* C1 as stated: on a string whose trimmed tokens are each n, a-b or <n the
\* result is the union of {n}, [min(a,b), max(a,b)] and {1..n}.
C1_UnionAsClaimed ==
    (ppc = "done" /\ WellFormed(nputstr)) =>
        /\ ~ret.isNone
        /\ ret.sel = UNION {DenotesAsClaimed(t) : t \in TokenSet(nputstr)}

\* C1 amended: as C1, with "<n" giving the closed interval between 1 and n
\* (which is {1..n} for n >= 1 and {0, 1} for "<0").
C1_UnionAmended ==
    (ppc = "done" /\ WellFormed(nputstr)) =>
        /\ ~ret.isNone
        /\ ret.sel = UNION {DenotesAmended(t) : t \in TokenSet(nputstr)}

\* a finished parse of two or more well-formed tokens, one of them a range
\* written high-low, giving three or more numbers
C1_Witness ==
    /\ ppc = "done"
    /\ WellFormed(nputstr)
    /\ Len(Tokenise(nputstr)) >= 2
    /\ \E t \in TokenSet(nputstr) : IsDashToken(t) /\ DashLeft(t) > DashRight(t)
    /\ Cardinality(ret.sel) >= 3

\* C2: empty tokens are ignored: the parse returns what the loop gives on
\* the non-empty tokens alone.
C2_EmptyTokensIgnored ==
    (ppc = "done" /\ <<>> \in TokenSet(nputstr)) =>
        ret = Report(Loop(SelectSeq(Tokenise(nputstr), LAMBDA t : Len(t) > 0),
                          [selection |-> {}, invalid |-> {}]))

ValidTwoPart(t) ==
    /\ Len(split(t, "-")) = 2
    /\ \A k \in 1..2 : int_ok(split(t, "-")[k])

BadTokens(s) ==
    {Rewrite(t) : t \in {u \in TokenSet(s) :
        Len(u) > 0 /\ ~int_ok(Rewrite(u)) /\ ~ValidTwoPart(Rewrite(u))}}

\* C3: the parse fails iff some non-empty token is neither an integer nor a
\* two-part range a-b, and the invalid set reported is the set of those
\* tokens.  Stated here for strings without empty tokens, which C2 is about.
C3_FailsIffInvalidToken ==
    (ppc = "done" /\ <<>> \notin TokenSet(nputstr)) =>
        /\ ret.isNone <=> BadTokens(nputstr) # {}
        /\ ret.isNone => invalid = BadTokens(nputstr)

-----------------------------------------------------------------------------
(* Claims about the genepanel command, checked under Spec *)

RowOf(iv) ==
    CHOOSE r \in {df[k] : k \in 1..Len(df)} :
        r.chrom = iv.chrom /\ \E k \in 1..Len(r.exonStarts) : r.exonStarts[k] = iv.start

GenomicRank(r, k) ==
    1 + Cardinality({j \in 1..Len(r.exonStarts) : r.exonStarts[j] < r.exonStarts[k]})

StrandNumber(r, k) ==
    IF r.strand = "+" THEN GenomicRank(r, k)
    ELSE Len(r.exonStarts) + 1 - GenomicRank(r, k)

NumberOf(iv) ==
    LET r == RowOf(iv)
    IN  StrandNumber(r, CHOOSE k \in 1..Len(r.exonStarts) : r.exonStarts[k] = iv.start)

Requested == {exon_range[k] : k \in 1..Len(exon_range)}

C6_CoordinateWins ==
    (pc = "done" /\ output_file.written /\ Has(input_json, "coordinate")) =>
        \A k \in 1..Len(output_file.rows) :
            \A tag \in output_file.rows[k].thickStart :
                tag[1] \notin {"exon_num_", "total_exon_"}

\* the rows of the reference file the query asks for
Wanted ==
    {k \in 1..Len(reference) :
        /\ reference[k].name2 = input_json["genename"]
        /\ Has(input_json, "transcript") =>
               StripVersion(reference[k].name) = input_json["transcript"]}

\* C7: when no reference row matches the gene (and the transcript, if given)
\* the run fails and produces no interval; past the emptiness test the
\* candidate table is never empty.
C7_NoCandidatesFails ==
    /\ (pc = "done" /\ json_ok /\ Has(input_json, "genename") /\ Wanted = {}) =>
          /\ error.exc # "none"
          /\ ~output_file.written
          /\ df_out = <<>>
          /\ Len(reference_df) > 0 =>
                error = Abort("No enteries for input string was found in reference file.")
    /\ pc \in {"ambiguous", "bed", "merge"} => Len(df) > 0

\* the gene is in the reference, the transcript asked for is not
C7_Witness ==
    /\ pc = "done"
    /\ json_ok
    /\ Has(input_json, "genename")
    /\ Has(input_json, "transcript")
    /\ Wanted = {}
    /\ \E k \in 1..Len(reference) : reference[k].name2 = input_json["genename"]
    /\ error = Abort("No enteries for input string was found in reference file.")

\* C8: with exons in the query and more than one candidate row the run fails
\* before any exon is numbered; exons are numbered over one row only.
C8_AmbiguousSelectionFails ==
    /\ (pc \in {"bed", "merge"} /\ Has(input_json, "exons")) => Len(df) = 1
    /\ (pc = "done" /\ json_ok /\ Has(input_json, "exons") /\ Len(df) > 1) =>
          /\ error = Abort("More than one entry name (transcript) or name2 (gene) or strand column")
          /\ df_out = <<>>
          /\ ~output_file.written
    /\ (Len(exon_range) > 0 /\ (pc = "merge" \/ output_file.written)) => Len(df) = 1

\* two records of the transcript asked for, and an exon selection
C8_Witness ==
    /\ pc = "done"
    /\ json_ok
    /\ Has(input_json, "exons")
    /\ Has(input_json, "transcript")
    /\ Len(df) > 1
    /\ error.exc = "click.Abort"

\* C9: a run that fails has not written the output; the output is written
\* once, by the last step, with the merge of the sorted intervals.
C9_WriteAllOrNothing ==
    /\ [](error.exc # "none" => ~output_file.written)
    /\ [][output_file' # output_file =>
            /\ pc = "merge"
            /\ pc' = "done"
            /\ error'.exc = "none"
            /\ output_file'.rows = Merge(SortBed(df_out), <<>>)]_vars

\* a run that failed in the merge, its intervals already built
C9_Witness ==
    /\ pc = "done"
    /\ error = Abort("Merge and collapse of BED object failed")
    /\ Len(df_bed) > 0
    /\ ~output_file.written

\* C10: an exons string with an unparseable token ends the run with the
\* invalid-range error (log 'Incorrect exon range', click.Abort).
C10_InvalidRangeAborts ==
    (/\ pc = "done"
     /\ json_ok
     /\ Has(input_json, "genename")
     /\ Has(input_json, "exons")
     /\ parseIntSet(input_json["exons"]).isNone) =>
        error = Abort("Incorrect exon range. Example: <3,4-7,10-12,24")

====
